---- MODULE Spec2Model ----
(***************************************************************************)
(* A model of ping_on_failure.py: one run of the script fetches the most   *)
(* recent commits of the default branch page by page, normalises their     *)
(* status checks, compares the result with the snapshot kept in            *)
(* statuses.json, sends one Discord message per newly failing check and    *)
(* rewrites statuses.json.  Runs follow each other; the only state a run   *)
(* leaves behind is the file.                                              *)
(*                                                                         *)
(* JSON values are modelled by their abstract syntax: a list is a          *)
(* sequence, an object is a record, null is the value None.  A status      *)
(* token is a sequence of one-character strings, so that str.lower() and   *)
(* the substring test are computed and not assumed.                        *)
(***************************************************************************)
EXTENDS Naturals, Sequences, FiniteSets, TLC

\* ---------------------------------------------------------------- bounds

\* Most status entries the hosting service holds over all commits of one
\* fetched history (runs of the script).
MaxChecks == 2

\* Most commits the hosting service holds on the default branch (fetch loop).
MaxUpstream == 26

\* ---------------------------------------------------- program constants

MAX_COMMITS_TO_CHECK == 10

\* history(first: 15 ...): the page size asked of the hosting service.
PAGE_SIZE == 15

\* ------------------------------------------------------------- strings

Min(a, b) == IF a < b THEN a ELSE b

UpperCase == <<"A", "B", "C", "D", "E", "F", "G", "H", "I", "J", "K", "L", "M",
               "N", "O", "P", "Q", "R", "S", "T", "U", "V", "W", "X", "Y", "Z">>

LowerCase == <<"a", "b", "c", "d", "e", "f", "g", "h", "i", "j", "k", "l", "m",
               "n", "o", "p", "q", "r", "s", "t", "u", "v", "w", "x", "y", "z">>

\* Python's None / JSON's null.
None == [none |-> TRUE]

\* A Python str, held as its characters.
Str(chars) == [chars |-> chars]

IsStr(v) == "chars" \in DOMAIN v

\* str.lower() on one character.
LowerChar(c) ==
    IF \E k \in 1..26 : UpperCase[k] = c
    THEN LowerCase[CHOOSE k \in 1..26 : UpperCase[k] = c]
    ELSE c

\* str.lower()
Lower(s) == Str([k \in 1..Len(s.chars) |-> LowerChar(s.chars[k])])

\* sub in s, for two str
Contains(sub, s) ==
    \E k \in 0..Len(s.chars) :
        /\ k + Len(sub.chars) <= Len(s.chars)
        /\ SubSeq(s.chars, k + 1, k + Len(sub.chars)) = sub.chars

ERROR_WORD == Str(<<"e", "r", "r", "o", "r">>)
FAIL_WORD == Str(<<"f", "a", "i", "l">>)

\* Line 148, the filter of message_diff on one check: x["status"].lower()
\* raises AttributeError when the status is None.
PredicateRaises(x) == ~IsStr(x.status)

\* Line 148: the value of the filter on a check whose status is a str.
IsFailing(x) ==
    Contains(ERROR_WORD, Lower(x.status)) \/ Contains(FAIL_WORD, Lower(x.status))

\* ------------------------------------------------- the hosting service

\* A StatusContext node of the GraphQL answer (the legacy status API).
StatusContext(context, state, targetUrl) ==
    [context |-> context, state |-> state, targetUrl |-> targetUrl]

\* A CheckRun node of the GraphQL answer (GitHub Actions).
CheckRun(workflow, name, conclusion, detailsUrl) ==
    [name |-> name,
     conclusion |-> conclusion,
     detailsUrl |-> detailsUrl,
     checkSuite |-> [workflowRun |-> [workflow |-> [name |-> workflow]]]]

FAILURE == Str(<<"F", "A", "I", "L", "U", "R", "E">>)
ERROR == Str(<<"E", "R", "R", "O", "R">>)
SUCCESS == Str(<<"S", "U", "C", "C", "E", "S", "S">>)

\* The status nodes the hosting service can attach to a commit: a failing
\* legacy status, a passing check run that normalises to the same name, a
\* legacy status in error and a check run of that name that has not
\* concluded yet (its conclusion is null).
Nodes ==
    { StatusContext("CI / build", FAILURE, "http://x/1"),
      CheckRun("CI", "build", SUCCESS, "http://x/2"),
      StatusContext("CI / lint", ERROR, "http://x/3"),
      CheckRun("CI", "lint", None, "http://x/4") }

\* The default branch, newest commit first.
Branch == <<"b2", "a1">>

MessageHeadline(oid) == IF oid = "a1" THEN "fix bug" ELSE "add docs"

\* A commit node of the GraphQL answer (_commit_query_fields).
Commit(oid, nodes) ==
    [oid |-> oid,
     messageHeadline |-> MessageHeadline(oid),
     statusCheckRollup |-> [contexts |-> [nodes |-> nodes]]]

NodeLists == UNION {[1..n -> Nodes] : n \in 0..MaxChecks}

\* The histories of the default branch a run can meet: some of the commits of
\* the branch in their order, with at most MaxChecks status nodes in all.
Histories ==
    {<<>>}
    \cup {<<Commit(Branch[k], s)>> : k \in 1..Len(Branch), s \in NodeLists}
    \cup {<<Commit(Branch[1], s[1]), Commit(Branch[2], s[2])>> :
             s \in {t \in NodeLists \X NodeLists :
                       Len(t[1]) + Len(t[2]) <= MaxChecks}}

\* The history the fetch loop is studied on: n commits without checks.
PlainHistory(n) == [k \in 1..n |-> Commit(ToString(k), <<>>)]

\* The answer to commits_query(user, repo, cursor): the history object of
\* the response, holding the n commits that follow the cursor.  A cursor is
\* the position of its commit in the history; None asks for the first page.
HistoryPage(history, cursor, n) ==
    LET after == IF cursor = None THEN 0 ELSE cursor.after
    IN  [nodes |-> [k \in 1..n |-> history[after + k]],
         edges |-> [k \in 1..n |-> [cursor |-> [after |-> after + k]]]]

\* The page lengths the service may answer with: history(first: 15) gives
\* the next 15 commits or all that are left; a service that may answer
\* short gives any number up to that.
PageLengths(history, cursor, short) ==
    LET after == IF cursor = None THEN 0 ELSE cursor.after
        full == Min(PAGE_SIZE, Len(history) - after)
    IN  IF short THEN 0..full ELSE {full}

\* ---------------------------------------------------------- normaliser

\* One iteration of the loop of check_commit.
Unify(status) ==
    IF "context" \in DOMAIN status
    THEN [name |-> status.context,
          status |-> status.state,
          url |-> status.targetUrl]
    ELSE [name |-> status.checkSuite.workflowRun.workflow.name
                   \o " / " \o status.name,
          status |-> status.conclusion,
          url |-> status.detailsUrl]

check_commit(commit) ==
    LET statuses == commit.statusCheckRollup.contexts.nodes
    IN  [oid |-> commit.oid,
         statuses |-> [k \in 1..Len(statuses) |-> Unify(statuses[k])],
         messageHeadline |-> commit.messageHeadline]

\* ------------------------------------------------------------ the state

VARIABLES
    file,          \* statuses.json: the JSON list written by the last store
    upstream,      \* the history of the default branch on the hosting service
    short,         \* whether the service may answer with less than a full page
    args,          \* the parsed command line of the run: push, statuses
    pc,            \* "idle" between runs, else the place the run is at
    r,             \* the history object of the last GraphQL response
    commits,       \* the nodes of the last page
    i,             \* the count of commits seen by the fetch loop
    all_data,      \* the new snapshot
    old_all_data,  \* the old snapshot, a JSON value
    q,             \* the last page query: the cursor it asks to start after
    ci,            \* message_diff: position in new of the commit being handled
    to_message,    \* message_diff: positions in commit["statuses"] left to send
    effects,       \* what the run has done to the outside, in order
    exit,          \* None while a run goes on, else how the last run ended
    watch,         \* history: one notified failure followed through the runs
    replay         \* history: what the aborted run that this run repeats posted

vars == <<file, upstream, short, args, pc, r, commits, i, all_data,
          old_all_data, q, ci, to_message, effects, exit, watch, replay>>

\* A JSON value read by json.loads / json.load: a list, or the empty object
\* that test.py passes as --statuses.
JsonList(items) == [type |-> "list", items |-> items]
EmptyDict == [type |-> "dict", items |-> <<>>]

NotEqualAlways(old, new) == TRUE

\* old_all_data != all_data, where all_data is a list: a dict never equals a
\* list, two lists are compared item by item.
NotEqual(old, new) == ~(old.type = "list" /\ old.items = new)

\* What the loop of find_old over old iterates: the items of a list, the keys of a dict.
Iterate(old) == old.items

\* ------------------------------------------------------- message_diff

find_old(old, oid) ==
    LET hits == {k \in 1..Len(Iterate(old)) : Iterate(old)[k].oid = oid}
    IN  IF hits = {} THEN None
        ELSE Iterate(old)[CHOOSE k \in hits : \A j \in hits : k <= j]

Positions(statuses) == [k \in 1..Len(statuses) |-> k]

CandidatesAll(old, commit) == Positions(commit.statuses)

\* Lines 136-143: the positions in commit["statuses"] of the checks to message
\* about, before the failure filter.
Candidates(old, commit) ==
    LET old_commit == find_old(old, commit.oid)
        old_names == {old_commit.statuses[k].name :
                        k \in 1..Len(old_commit.statuses)}
    IN  IF old_commit # None
        THEN SelectSeq(Positions(commit.statuses),
                       LAMBDA k : commit.statuses[k].name \notin old_names)
        ELSE Positions(commit.statuses)

\* Lines 145-149: whether the failure filter raises on the candidates.
FilterRaises(old, commit) ==
    \E k \in 1..Len(Candidates(old, commit)) :
        PredicateRaises(commit.statuses[Candidates(old, commit)[k]])

\* Lines 145-149: the candidates the failure filter keeps.
Failing(old, commit) ==
    SelectSeq(Candidates(old, commit), LAMBDA k : IsFailing(commit.statuses[k]))

NotReversed(s) == s

\* Line 151: reversed(to_message).
Reversed(s) == [k \in 1..Len(s) |-> s[Len(s) + 1 - k]]

\* Lines 152-162: the body posted for check m of the commit.  The message
\* quotes the name and the oid in backquotes, written ' here.
Body(commit, m) ==
    [content |-> "Job '" \o m.name \o "' failed on commit '" \o commit.oid
                 \o "': " \o commit.messageHeadline,
     embeds |-> <<[title |-> m.url, url |-> m.url]>>]

\* ------------------------------------------------------------- a run

\* A list that holds commit a1 twice, as --statuses can give it.
Twice ==
    JsonList(<<check_commit(Commit("a1", <<CheckRun("CI", "build", SUCCESS, "http://x/2")>>)),
               check_commit(Commit("a1", <<StatusContext("CI / lint", ERROR, "http://x/3")>>))>>)

\* The command lines a run is started with: --push or not, or --statuses with
\* the {} of test.py.
Args ==
    { [push |-> FALSE, statuses |-> None],
      [push |-> TRUE, statuses |-> None],
      [push |-> FALSE, statuses |-> EmptyDict] }

\* The status codes the webhook answers with.
StatusCodes == {199, 204, 300}

Raised(error) == [code |-> 1, error |-> error]
Returned == [code |-> 0]

Init ==
    /\ file = <<>>
    /\ upstream = <<>>
    /\ short = FALSE
    /\ args = [push |-> FALSE, statuses |-> None]
    /\ pc = "idle"
    /\ r = None
    /\ commits = <<>>
    /\ i = 0
    /\ all_data = <<>>
    /\ old_all_data = JsonList(<<>>)
    /\ q = None
    /\ ci = 0
    /\ to_message = <<>>
    /\ effects = <<>>
    /\ exit = None
    /\ watch = None
    /\ replay = None

ReadOldNothing(a, stored) == JsonList(<<>>)

\* Lines 200-204: the old snapshot is what --statuses holds, else what
\* statuses.json holds.
ReadOld(a, stored) == IF a.statuses # None THEN a.statuses ELSE JsonList(stored)

\* Lines 176-204: the command line is parsed, the first page is q, the
\* old snapshot is read from --statuses or from statuses.json.
Begin(a, history) ==
    /\ pc = "idle"
    /\ \E n \in PageLengths(history, None, short) :
          /\ r' = HistoryPage(history, None, n)
          /\ commits' = r'.nodes
    /\ upstream' = history
    /\ args' = a
    /\ q' = None
    /\ i' = 0
    /\ all_data' = <<>>
    /\ old_all_data' = ReadOld(a, file)
    /\ ci' = 0
    /\ to_message' = <<>>
    /\ effects' = <<>>
    /\ exit' = None
    /\ pc' = "loop"
    /\ UNCHANGED <<file, short>>

FirstCursor(edges) == edges[1].cursor

\* Line 222: the cursor of the next page query.
NextCursor(edges) == edges[Len(edges)].cursor

\* Lines 206-226: one pass of the while loop, up to the next test of its
\* condition.  The loop is left by break when the page had no edges, and by
\* its condition when i has reached MAX_COMMITS_TO_CHECK.
LoopIter ==
    /\ pc = "loop"
    /\ i < MAX_COMMITS_TO_CHECK
    /\ LET edges == r.edges
           cursor == NextCursor(edges)
       IN  /\ i' = i + Len(commits)
           /\ all_data' = all_data \o [k \in 1..Len(commits) |-> check_commit(commits[k])]
           /\ IF Len(edges) = 0
              THEN /\ pc' = "compare"
                   /\ UNCHANGED <<r, commits, q>>
              ELSE IF i' < MAX_COMMITS_TO_CHECK
              THEN /\ \E n \in PageLengths(upstream, cursor, short) :
                         /\ r' = HistoryPage(upstream, cursor, n)
                         /\ commits' = r'.nodes
                   /\ q' = cursor
                   /\ pc' = "loop"
              ELSE /\ pc' = "compare"
                   /\ UNCHANGED <<r, commits, q>>
    /\ UNCHANGED <<file, upstream, short, args, old_all_data, ci, to_message,
                   effects, exit, watch, replay>>

\* Line 229: the run ends at once when the two snapshots are equal.
Compare ==
    /\ pc = "compare"
    /\ IF NotEqual(old_all_data, all_data)
       THEN /\ pc' = "diff"
            /\ exit' = exit
       ELSE /\ pc' = "done"
            /\ exit' = Returned
    /\ UNCHANGED <<file, upstream, short, args, r, commits, i, all_data,
                   old_all_data, q, ci, to_message, effects, watch, replay>>

\* Lines 135-149: message_diff takes the next commit of new and works out
\* which of its checks to message about.  The failure filter raises
\* AttributeError on a status that is None, and the run dies of it.
DiffCommit ==
    /\ pc = "diff"
    /\ to_message = <<>>
    /\ ci < Len(all_data)
    /\ ci' = ci + 1
    /\ IF FilterRaises(old_all_data, all_data[ci'])
       THEN /\ pc' = "done"
            /\ exit' = Raised("AttributeError")
            /\ watch' = None
            /\ UNCHANGED to_message
       ELSE /\ to_message' = Reversed(Failing(old_all_data, all_data[ci']))
            /\ UNCHANGED <<pc, exit, watch>>
    /\ UNCHANGED <<file, upstream, short, args, r, commits, i, all_data,
                   old_all_data, q, effects, replay>>

\* The failure a notification is about.
Key(commit, m) == <<commit.oid, m.name>>

Discord(commit, k, status_code) ==
    [op |-> "discord",
     body |-> Body(commit, commit.statuses[k]),
     status_code |-> status_code,
     key |-> Key(commit, commit.statuses[k]),
     commit |-> ci,
     check |-> k]

RejectedFrom300(status_code) == status_code >= 300

\* Line 170: the answers discord raises on.
Rejected(status_code) == status_code >= 300 \/ status_code < 200

\* Lines 151-163 and 166-173: one pass of the loop over to_message.  discord
\* posts the body and raises RuntimeError unless the answer is a 2xx.
Send ==
    /\ pc = "diff"
    /\ to_message # <<>>
    /\ \E status_code \in StatusCodes :
          /\ effects' = Append(effects, Discord(all_data[ci], Head(to_message), status_code))
          /\ IF Rejected(status_code)
             THEN /\ pc' = "done"
                  /\ exit' = Raised("RuntimeError")
                  /\ watch' = None
                  /\ UNCHANGED to_message
             ELSE /\ to_message' = Tail(to_message)
                  /\ UNCHANGED <<pc, exit, watch>>
    /\ UNCHANGED <<file, upstream, short, args, r, commits, i, all_data,
                   old_all_data, q, ci, replay>>

Git(argv) == [op |-> "git", argv |-> argv]

\* Lines 235-240.  The commit message quotes status.json in backquotes, left
\* out here.
PushCommands ==
    << Git(<<"add", "statuses.json">>),
       Git(<<"config", "user.email", "95660001+tvm-bot@users.noreply.github.com">>),
       Git(<<"config", "user.name", "tvm-bot">>),
       Git(<<"commit", "-mUpdate status.json">>),
       Git(<<"push">>) >>

\* The failure that is followed through the runs.
Watched == <<"a1", "CI / build">>

\* Whether the first commit with the oid of the failure has, in the list, a
\* check of its name.
Holds(snapshot, key) ==
    LET c == find_old(JsonList(snapshot), key[1])
    IN  /\ c # None
        /\ \E k \in 1..Len(c.statuses) : c.statuses[k].name = key[2]

\* Lines 232-240: message_diff has returned; all_data is dumped to
\* statuses.json and, with --push, the file is committed and pushed.
Store ==
    /\ pc = "diff"
    /\ to_message = <<>>
    /\ ci = Len(all_data)
    /\ file' = all_data
    /\ effects' = effects \o <<[op |-> "write", data |-> all_data]>>
                          \o (IF args.push THEN PushCommands ELSE <<>>)
    /\ pc' = "done"
    /\ exit' = Returned
    /\ watch' \in IF watch # None
                  THEN {[watch EXCEPT !.live = watch.live /\ Holds(all_data, watch.key)]}
                  ELSE {None} \cup
                       {[key |-> effects[k].key, live |-> Holds(all_data, effects[k].key)] :
                          k \in {j \in 1..Len(effects) :
                                  /\ args.statuses = None
                                  /\ effects[j].key = Watched}}
    /\ UNCHANGED <<upstream, short, args, r, commits, i, all_data,
                   old_all_data, q, ci, to_message, replay>>

\* The process is gone: nothing of the run is left but statuses.json and
\* what the run did to the outside.  The history of the default branch is
\* read by the next run only, which finds it as it is then.
Exit ==
    /\ pc = "done"
    /\ pc' = "idle"
    /\ replay' \in {None} \cup
                   (IF exit = Raised("RuntimeError") /\ args.statuses = None
                    THEN {[bodies |-> [k \in 1..Len(effects) |-> effects[k].body],
                           history |-> upstream]}
                    ELSE {})
    /\ upstream' = <<>>
    /\ args' = [push |-> FALSE, statuses |-> None]
    /\ r' = None
    /\ commits' = <<>>
    /\ i' = 0
    /\ all_data' = <<>>
    /\ old_all_data' = JsonList(<<>>)
    /\ q' = None
    /\ ci' = 0
    /\ to_message' = <<>>
    /\ effects' = <<>>
    /\ exit' = None
    /\ UNCHANGED <<file, short, watch>>

\* A run is started, on whatever the default branch has become; replay is
\* set when it is started again on the history, and without --statuses as
\* the run before it, which the webhook aborted.
StartRun ==
    \E a \in Args, history \in Histories :
        /\ replay # None => (a.statuses = None /\ history = replay.history)
        /\ Begin(a, history)
        /\ watch' = IF a.statuses # None THEN None ELSE watch
        /\ UNCHANGED replay

Next == StartRun \/ LoopIter \/ Compare \/ DiffCommit \/ Send \/ Store \/ Exit

Spec == Init /\ [][Next]_vars

\* -------------------------------------------------- the fetch loop alone

\* The fetch loop of one run, on a default branch of up to MaxUpstream
\* commits and a service that may or may not answer with short pages.
FetchInit ==
    /\ file = <<>>
    /\ upstream \in {PlainHistory(n) : n \in 0..MaxUpstream}
    /\ short \in BOOLEAN
    /\ args = [push |-> FALSE, statuses |-> None]
    /\ pc = "idle"
    /\ r = None
    /\ commits = <<>>
    /\ i = 0
    /\ all_data = <<>>
    /\ old_all_data = JsonList(<<>>)
    /\ q = None
    /\ ci = 0
    /\ to_message = <<>>
    /\ effects = <<>>
    /\ exit = None
    /\ watch = None
    /\ replay = None

FetchStart ==
    /\ Begin([push |-> FALSE, statuses |-> None], upstream)
    /\ UNCHANGED <<watch, replay>>

FetchNext == FetchStart \/ LoopIter

\* The interpreter runs the loop on: a pass that can be taken is taken.
FetchSpec == FetchInit /\ [][FetchNext]_vars /\ WF_vars(FetchNext)

\* ------------------------------------------- a run from line 229 on

\* The new snapshot of a history.
Snapshot(history) == [k \in 1..Len(history) |-> check_commit(history[k])]

\* The old snapshots a run compares with: what an earlier run has stored in
\* statuses.json, read by a run with --push, or what --statuses gives.
Olds ==
    {[push |-> TRUE, statuses |-> None, file |-> Snapshot(h)] : h \in Histories}
    \cup {[push |-> FALSE, statuses |-> EmptyDict, file |-> <<>>],
          [push |-> FALSE, statuses |-> Twice, file |-> <<>>]}

\* The run is at line 229: the history has been fetched in full.
CompareInit ==
    \E h \in Histories, o \in Olds :
        /\ file = o.file
        /\ upstream = h
        /\ short = FALSE
        /\ args = [push |-> o.push, statuses |-> o.statuses]
        /\ pc = "compare"
        /\ q = IF Len(h) = 0 THEN None ELSE [after |-> Len(h)]
        /\ r = HistoryPage(h, q, 0)
        /\ commits = <<>>
        /\ i = Len(h)
        /\ all_data = Snapshot(h)
        /\ old_all_data = ReadOld(args, file)
        /\ ci = 0
        /\ to_message = <<>>
        /\ effects = <<>>
        /\ exit = None
        /\ watch = None
        /\ replay = None

CompareNext == Compare \/ DiffCommit \/ Send \/ Store

CompareSpec == CompareInit /\ [][CompareNext]_vars

\* ------------------------------------------------------------ the claims

\* The positions in effects of the webhook calls of the run.
Posts == {k \in 1..Len(effects) : effects[k].op = "discord"}

\* The positions in effects of the webhook calls that were answered 2xx.
Delivered == {k \in Posts : effects[k].status_code \in 200..299}

Writes == {k \in 1..Len(effects) : effects[k].op = "write"}

\* The first commit of a list with the oid, as position; 0 when there is none.
FirstWithOid(list, oid) ==
    IF \E k \in 1..Len(list) : list[k].oid = oid
    THEN CHOOSE k \in 1..Len(list) :
            /\ list[k].oid = oid
            /\ \A j \in 1..(k - 1) : list[j].oid # oid
    ELSE 0

NamesOf(commit) == {commit.statuses[k].name : k \in 1..Len(commit.statuses)}

\* The words of the failure filter, in lower and in upper case.
FailureWords ==
    { << <<"e", "r", "r", "o", "r">>, <<"E", "R", "R", "O", "R">> >>,
      << <<"f", "a", "i", "l">>, <<"F", "A", "I", "L">> >> }

\* A status token that contains "error" or "fail", whatever the case.
FailingToken(status) ==
    /\ IsStr(status)
    /\ \E w \in FailureWords : \E k \in 0..Len(status.chars) :
          /\ k + Len(w[1]) <= Len(status.chars)
          /\ \A j \in 1..Len(w[1]) : status.chars[k + j] \in {w[1][j], w[2][j]}

\* C1: when the old and the new snapshot are structurally equal, the run sends
\* no notification, does not write statuses.json and runs no git command, with
\* --push too: it ends at the comparison, with nothing done and status 0.
C1_EqualSnapshotsNoEffects ==
    (pc \in {"diff", "done"} /\ old_all_data = JsonList(all_data)) =>
        /\ pc = "done"
        /\ exit = Returned
        /\ effects = <<>>
        /\ args.statuses = None => file = all_data

\* C1 witness: a run with --push has ended on a snapshot equal to the stored
\* one, which holds a failing check.
C1_Witness ==
    /\ pc = "done"
    /\ args.push
    /\ old_all_data = JsonList(all_data)
    /\ \E k \in 1..Len(all_data) : \E j \in 1..Len(all_data[k].statuses) :
          FailingToken(all_data[k].statuses[j].status)

\* The position in the commit's statuses of the check a webhook call is about,
\* and the commit itself.
CommitOf(k) == all_data[effects[k].commit]
CheckOf(k) == CommitOf(k).statuses[effects[k].check]

\* The message that tells of check x failing on commit c.
Notification(c, x) ==
    [content |-> "Job '" \o x.name \o "' failed on commit '" \o c.oid \o "': "
                 \o c.messageHeadline,
     embeds |-> <<[title |-> x.url, url |-> x.url]>>]

\* C2: once message_diff is through without the webhook refusing a call, every
\* commit of the new snapshot whose oid no old commit has was notified once
\* for each of its checks with a failing status token, with that check's name
\* and url and the commit's oid and headline, and not for its other checks.
C2_NewCommitFailingChecksNotified ==
    (pc = "done" /\ NotEqual(old_all_data, all_data) /\ Posts = Delivered) =>
        \A c \in 1..Len(all_data) :
            FirstWithOid(Iterate(old_all_data), all_data[c].oid) = 0 =>
                \A x \in 1..Len(all_data[c].statuses) :
                    LET sent == {k \in Delivered :
                                   /\ effects[k].commit = c
                                   /\ effects[k].check = x}
                    IN  /\ Cardinality(sent) =
                             (IF FailingToken(all_data[c].statuses[x].status) THEN 1 ELSE 0)
                        /\ \A k \in sent :
                             effects[k].body = Notification(all_data[c], all_data[c].statuses[x])

\* C3: no webhook call is ever about a check whose name is among the check
\* names of the first old commit with the oid of its commit, whatever the old
\* and the new status of that name.
C3_SeenNameNeverNotified ==
    \A k \in Posts :
        LET o == FirstWithOid(Iterate(old_all_data), CommitOf(k).oid)
        IN  o # 0 => CheckOf(k).name \notin NamesOf(Iterate(old_all_data)[o])

\* C3 witness: message_diff has returned, and a check of the new snapshot is
\* failing whose name the old commit of the same oid holds with a status
\* that is not failing.
C3_Witness ==
    /\ pc = "done"
    /\ exit = Returned
    /\ \E c \in 1..Len(all_data) :
          LET o == FirstWithOid(Iterate(old_all_data), all_data[c].oid)
          IN  /\ o # 0
              /\ \E x \in 1..Len(all_data[c].statuses) :
                    \E y \in 1..Len(Iterate(old_all_data)[o].statuses) :
                        /\ FailingToken(all_data[c].statuses[x].status)
                        /\ Iterate(old_all_data)[o].statuses[y].name = all_data[c].statuses[x].name
                        /\ ~FailingToken(Iterate(old_all_data)[o].statuses[y].status)

\* C9: the webhook calls of a run are made commit by commit in the order of
\* the new snapshot, and within a commit from its last check to its first.
C9_NotificationOrder ==
    \A j \in Posts : \A k \in Posts :
        j < k =>
            \/ effects[j].commit < effects[k].commit
            \/ /\ effects[j].commit = effects[k].commit
               /\ effects[j].check > effects[k].check

\* C9 witness: two checks of different names of one commit were notified.
C9_Witness ==
    /\ pc = "done"
    /\ \E j \in Delivered : \E k \in Delivered :
          /\ j < k
          /\ effects[j].commit = effects[k].commit
          /\ CheckOf(j).name # CheckOf(k).name

\* The failure a webhook call is about.
FailureOf(k) == <<CommitOf(k).oid, CheckOf(k).name>>

\* C4, as claimed: in runs that follow each other, each reading the file the
\* one before it has stored and each completing, a failure that an earlier
\* run has notified is not notified again.
C4_NeverNotifiedAgain ==
    (pc = "diff" /\ watch # None) =>
        \A k \in Delivered : FailureOf(k) # watch.key

\* C4, amended: in such runs, a failure that an earlier run has notified is
\* not notified again as long as every snapshot stored since, that of the
\* notifying run included, holds a check of its name in the first commit with
\* its oid.
C4_HeldFailureNotNotifiedAgain ==
    (pc = "diff" /\ watch # None /\ watch.live) =>
        \A k \in Posts : FailureOf(k) # watch.key

\* C4 witness: a later run has notified another failure and is about to
\* store, while the followed failure is still held and still failing.
C4_Witness ==
    /\ pc = "diff"
    /\ watch # None
    /\ watch.live
    /\ Delivered # {}
    /\ to_message = <<>>
    /\ ci = Len(all_data)
    /\ \E c \in 1..Len(all_data) : \E x \in 1..Len(all_data[c].statuses) :
          /\ <<all_data[c].oid, all_data[c].statuses[x].name>> = watch.key
          /\ FailingToken(all_data[c].statuses[x].status)

\* C5: a webhook answer that is no 2xx ends the run at that call: the calls
\* before it stay delivered, none follows, statuses.json is not written and
\* the exit status is not zero.  The run started next on the same history and
\* the unchanged file goes into message_diff again and posts the same bodies
\* from the first one on, reaching at least the call that was refused unless
\* the webhook refuses one again.
C5_WebhookFailureAborts ==
    /\ \A k \in Posts :
          effects[k].status_code \notin 200..299 =>
              /\ k = Len(effects)
              /\ pc = "done"
              /\ exit # None
              /\ exit.code # 0
              /\ Writes = {}
              /\ args.statuses = None => file = Iterate(old_all_data)
    /\ replay # None =>
          /\ args.statuses = None
          /\ pc = "compare" => NotEqual(old_all_data, all_data)
          /\ \A k \in 1..Min(Len(effects), Len(replay.bodies)) :
                /\ effects[k].op = "discord"
                /\ effects[k].body = replay.bodies[k]
          /\ (pc = "done" /\ Posts = Delivered) =>
                Len(effects) >= Len(replay.bodies)

\* C5 witness: the run that follows a run aborted at its second webhook call
\* has delivered two notifications.
C5_Witness ==
    /\ replay # None
    /\ Len(replay.bodies) >= 2
    /\ pc = "done"
    /\ Cardinality(Delivered) >= 2

\* C6: when the new snapshot differs from the old one and no webhook call is
\* refused, statuses.json ends up holding the new snapshot, written once and
\* after the last webhook call.
C6_DifferingSnapshotStored ==
    (pc = "done" /\ NotEqual(old_all_data, all_data) /\ Posts = Delivered) =>
        /\ file = all_data
        /\ Cardinality(Writes) = 1
        /\ \A w \in Writes : \A k \in Posts : k < w

\* C10: a run given the empty old snapshot of test.py through --statuses, in
\* which no webhook call is refused, ends with exit status 0.
C10_EmptyOldRunSucceeds ==
    (pc = "done" /\ args.statuses = EmptyDict /\ Posts = Delivered) =>
        exit = Returned

\* C7: when the fetch loop has ended, the new snapshot holds at most
\* MAX_COMMITS_TO_CHECK commits.
C7_AtMostMaxCommits ==
    pc = "compare" => Len(all_data) <= MAX_COMMITS_TO_CHECK

\* What C8 says of every state of the fetch loop.
C8_LoopState ==
    /\ pc = "loop" => i < MAX_COMMITS_TO_CHECK
    /\ pc = "compare" => (i >= MAX_COMMITS_TO_CHECK \/ Len(r.edges) = 0)
    /\ pc \in {"loop", "compare"} =>
          /\ Len(all_data) <= Len(upstream)
          /\ \A k \in 1..Len(all_data) : all_data[k].oid = upstream[k].oid
    /\ (pc = "compare" /\ Len(upstream) < MAX_COMMITS_TO_CHECK) =>
          /\ Len(r.edges) = 0
          /\ ~short => Len(all_data) = Len(upstream)

\* What C8 says of every page query after the first.
C8_QueryStep ==
    q' # q =>
        /\ i' < MAX_COMMITS_TO_CHECK
        /\ Len(r.edges) > 0
        /\ q' = r.edges[Len(r.edges)].cursor

\* C8: the fetch loop ends, whatever pages the service answers with; it goes
\* on only while fewer than MAX_COMMITS_TO_CHECK commits are counted and ends
\* only with that many counted or on a page without edges; a further page is
\* queried, from the cursor of the last edge of the page before, only when
\* that page had edges and fewer than MAX_COMMITS_TO_CHECK commits are
\* counted; the snapshot holds the commits of the branch in their order, each
\* once, and all of them when the branch has fewer than
\* MAX_COMMITS_TO_CHECK and the service answers with full pages.
C8_FetchLoopEnds ==
    /\ []C8_LoopState
    /\ [][C8_QueryStep]_vars
    /\ <>(pc = "compare")

\* C8 witness: the loop has ended on the empty second page of a branch of
\* fewer than MAX_COMMITS_TO_CHECK commits, all of them in the snapshot.
C8_Witness ==
    /\ pc = "compare"
    /\ ~short
    /\ q # None
    /\ Len(upstream) \in 1..(MAX_COMMITS_TO_CHECK - 1)
    /\ Len(all_data) = Len(upstream)
    /\ i < MAX_COMMITS_TO_CHECK

====
